---- MODULE Spec2Model ----
(***************************************************************************)
(* Telemetry relay of wta-dashboard: the ZeroMQ request/reply ingestion    *)
(* loop (startZmqReceiver), the latest-snapshot cell (latestData) and the  *)
(* WebSocket fan-out (broadcastToClients, startWebSocketServer) of         *)
(* src/server/zmq-server.ts.                                               *)
(*                                                                         *)
(* Numbers that are fractions in the source are kept in thousandths        *)
(* (ttlSec 2.0 is 2000, computationTime 0.001 is 1).  A value that may be  *)
(* undefined is a sequence of length 0 (undefined) or 1 (the value);       *)
(* a position is <<x, y>> or <<>>.                                         *)
(***************************************************************************)
EXTENDS Integers, Sequences, FiniteSets, TLC

\* ------------------------------------------------------------------ bounds
\* longest platform list and longest target list of a generated frame
MaxLen == 2
\* number of requests the ingestion transport delivers in a run
MaxReq == 2
\* last instant of the wall clock
MaxClock == 2
\* number of WebSocket connections that are ever opened
NumClients == 2
\* number of text messages the subscribers send in a run
MaxMsg == 1

\* the dashboard creates no more than this many sockets
MaxSockets == 3
\* the browser clock advances no more than this many steps
MaxTicks == 4
\* no more than this many pushes reach the dashboard
MaxPush == 12
\* wheel, click and drag events on the map
MaxPan == 1

\* part_002 76: the reconnect delay, in ms
RECONNECT_DELAY == 3000
\* part_002 52: slice(-10), the length of the update-rate window
WINDOW == 10
\* the step of the browser clock, in ms
ClockStep == 1000
\* part_001 321, 345, 352: the limits of the zoom scale, in thousandths
MIN_SCALE == 500
MAX_SCALE == 5000

\* ------------------------------------------------------- program constants
\* ttlSec of the placeholder planning reply, in thousandths (2.0)
TTL_PLAN == 2000
\* stats.computationTime of the placeholder planning reply, in thousandths
COMPUTATION_TIME_PLAN == 1
\* displacement of the first platform above which a report counts as changed,
\* in thousandths (0.1)
MOVE_THRESHOLD == 100

\* ------------------------------------------------------------------ values
Clients == 1..NumClients

\* the connections opened while the ingestion loop is examined
IngestClients == { 1 }

\* platforms by id; the platform with id 2 reports no position
PlatformVals ==
    { [id |-> i, pos |-> IF i = 2 THEN <<>> ELSE <<0, 0>>] : i \in 1..MaxLen }

TargetVals == { [id |-> i] : i \in 1..MaxLen }

RECURSIVE SeqsUpTo(_, _)
SeqsUpTo(S, n) ==
    IF n = 0 THEN { <<>> }
    ELSE LET shorter == SeqsUpTo(S, n - 1)
         IN  shorter \cup { Append(s, x) : s \in shorter, x \in S }

\* ------------------------------------------------------------ WTAMessage
\* A decoded frame: every field of the message is undefined (<<>>) or
\* populated (<<value>>).
EmptyFrame ==
    [ statusReport |-> <<>>, planRequest |-> <<>>, planResponse |-> <<>>,
      entityKilled |-> <<>>, damage |-> <<>>, fired |-> <<>> ]

FieldNames ==
    << "statusReport", "planRequest", "planResponse",
       "entityKilled", "damage", "fired" >>

\* ------------------------------------------------------------------ codec
\* The wire format: one header byte (the number of fields), then per field
\* a tag byte (its index in FieldNames) and a body.  A report or a request
\* body is a counted platform list and a counted target list; an event or a
\* response body is one byte.  A platform is its id, a presence byte and,
\* when present, x and y; a target is its id.
EncodePlatform_DropsPosition(p) == << p.id, 0 >>

EncodePlatform(p) ==
    IF p.pos = <<>> THEN << p.id, 0 >> ELSE << p.id, 1, p.pos[1], p.pos[2] >>

RECURSIVE EncodePlatforms(_)
EncodePlatforms(ps) ==
    IF ps = <<>> THEN <<>>
    ELSE EncodePlatform(Head(ps)) \o EncodePlatforms(Tail(ps))

RECURSIVE EncodeTargets(_)
EncodeTargets(ts) ==
    IF ts = <<>> THEN <<>> ELSE << Head(ts).id >> \o EncodeTargets(Tail(ts))

EncodeLists(v) ==
    << Len(v.platforms) >> \o EncodePlatforms(v.platforms)
        \o << Len(v.targets) >> \o EncodeTargets(v.targets)

EncodeField(i, field) ==
    IF field = <<>> THEN <<>>
    ELSE << i >> \o (IF i \in {1, 2} THEN EncodeLists(field[1])
                                     ELSE << field[1].id >>)

NumPopulated(frame) ==
    Cardinality({ i \in 1..Len(FieldNames) : frame[FieldNames[i]] # <<>> })

RECURSIVE EncodeFields(_, _)
EncodeFields(frame, i) ==
    IF i > Len(FieldNames) THEN <<>>
    ELSE EncodeField(i, frame[FieldNames[i]]) \o EncodeFields(frame, i + 1)

\* WTAMessage.encode(frame).finish()
Encode(frame) == << NumPopulated(frame) >> \o EncodeFields(frame, 1)

ParseFail == [ok |-> FALSE, val |-> <<>>, rest |-> <<>>]

Drop(b, n) == SubSeq(b, n + 1, Len(b))

RECURSIVE ParsePlatforms(_, _)
ParsePlatforms(b, n) ==
    IF n = 0 THEN [ok |-> TRUE, val |-> <<>>, rest |-> b]
    ELSE IF Len(b) < 2 THEN ParseFail
    ELSE IF b[2] = 0 THEN
        LET r == ParsePlatforms(Drop(b, 2), n - 1)
        IN  IF r.ok
            THEN [r EXCEPT !.val = << [id |-> b[1], pos |-> <<>>] >> \o r.val]
            ELSE ParseFail
    ELSE IF b[2] = 1 /\ Len(b) >= 4 THEN
        LET r == ParsePlatforms(Drop(b, 4), n - 1)
        IN  IF r.ok
            THEN [r EXCEPT !.val =
                     << [id |-> b[1], pos |-> << b[3], b[4] >>] >> \o r.val]
            ELSE ParseFail
    ELSE ParseFail

RECURSIVE ParseTargets(_, _)
ParseTargets(b, n) ==
    IF n = 0 THEN [ok |-> TRUE, val |-> <<>>, rest |-> b]
    ELSE IF Len(b) < 1 THEN ParseFail
    ELSE LET r == ParseTargets(Drop(b, 1), n - 1)
         IN  IF r.ok THEN [r EXCEPT !.val = << [id |-> b[1]] >> \o r.val]
             ELSE ParseFail

ParseLists(b) ==
    IF Len(b) < 1 THEN ParseFail
    ELSE LET ps == ParsePlatforms(Drop(b, 1), b[1])
         IN  IF ~ps.ok \/ Len(ps.rest) < 1 THEN ParseFail
             ELSE LET ts == ParseTargets(Drop(ps.rest, 1), ps.rest[1])
                  IN  IF ~ts.ok THEN ParseFail
                      ELSE [ ok |-> TRUE,
                             val |-> << [platforms |-> ps.val,
                                         targets |-> ts.val] >>,
                             rest |-> ts.rest ]

ParseBody(i, b) ==
    IF i \in {1, 2} THEN ParseLists(b)
    ELSE IF Len(b) < 1 THEN ParseFail
    ELSE [ok |-> TRUE, val |-> << [id |-> b[1]] >>, rest |-> Drop(b, 1)]

RECURSIVE ParseFields(_, _, _)
ParseFields(b, n, frame) ==
    IF n = 0 THEN [ok |-> b = <<>>, val |-> frame, rest |-> b]
    ELSE IF Len(b) < 1 \/ b[1] \notin 1..Len(FieldNames) THEN
        [ok |-> FALSE, val |-> frame, rest |-> b]
    ELSE LET body == ParseBody(b[1], Drop(b, 1))
         IN  IF ~body.ok THEN [ok |-> FALSE, val |-> frame, rest |-> b]
             ELSE ParseFields(body.rest, n - 1,
                              [frame EXCEPT ![FieldNames[b[1]]] = body.val])

\* WTAMessage.decode(buffer): ok = FALSE is the thrown decode error.
Decode(b) ==
    IF Len(b) = 0 THEN [ok |-> FALSE, frame |-> EmptyFrame]
    ELSE LET r == ParseFields(Drop(b, 1), b[1], EmptyFrame)
         IN  [ok |-> r.ok, frame |-> IF r.ok THEN r.val ELSE EmptyFrame]

\* ------------------------------------------------------------ request set
\* The byte buffers the requester may send.
\* ids are unique within one report
DistinctIds(list) ==
    \A i, j \in 1..Len(list) : i # j => list[i].id # list[j].id

PlatformLists == { ps \in SeqsUpTo(PlatformVals, MaxLen) : DistinctIds(ps) }

TargetLists == { ts \in SeqsUpTo(TargetVals, MaxLen) : DistinctIds(ts) }

ListValues ==
    { [platforms |-> ps, targets |-> ts] :
        ps \in PlatformLists, ts \in TargetLists }

EventValues == { [id |-> 1], [id |-> 2] }

SingleFrames ==
    { [EmptyFrame EXCEPT !.statusReport = << v >>] : v \in ListValues }
    \cup { [EmptyFrame EXCEPT !.planRequest = << v >>] : v \in ListValues }
    \cup { [EmptyFrame EXCEPT !.entityKilled = << v >>] : v \in EventValues }
    \cup { [EmptyFrame EXCEPT !.damage = << v >>] : v \in EventValues }
    \cup { [EmptyFrame EXCEPT !.fired = << v >>] : v \in EventValues }
    \cup { [EmptyFrame EXCEPT !.planResponse = << [id |-> 1] >>] }
    \cup { EmptyFrame }

\* buffers that do not decode: zero-length, truncated, unknown tag
MalformedBuffers == { <<>>, << 1, 1, 1 >>, << 1, 7, 0 >> }

RequestBuffers == { Encode(f) : f \in SingleFrames } \cup MalformedBuffers

\* ----------------------------------------------------------------- replies
Stats(computationTime, isValid) ==
    [ computationTime |-> computationTime, iterations |-> 0,
      isValid |-> isValid, coverageRate |-> 0 ]

\* zmq-server.ts 210-225 (StatusReport), 317-327, 344-354, 370-380 (events)
AckResponse(t) ==
    [ status |-> "ok", timestamp |-> t, bestFitness |-> 0, assignment |-> {},
      nPlatforms |-> 0, nTargets |-> 0, stats |-> Stats(0, TRUE),
      ttlSec |-> 0, errorMsg |-> "" ]

\* zmq-server.ts 283-298
PlanPlaceholderResponse(planRequest, t) ==
    [ status |-> "ok", timestamp |-> t, bestFitness |-> 0, assignment |-> {},
      nPlatforms |-> Len(planRequest.platforms),
      nTargets |-> Len(planRequest.targets),
      stats |-> Stats(COMPUTATION_TIME_PLAN, TRUE),
      ttlSec |-> TTL_PLAN, errorMsg |-> "" ]

\* an error reply that carries only its status and its text
UnknownResponse_Bare(t) ==
    [ status |-> "error", errorMsg |-> "Unknown message type" ]

\* an unknown-type reply whose stats still claim a valid plan
UnknownResponse_ValidStats(t) ==
    [ status |-> "error", timestamp |-> t, bestFitness |-> 0, assignment |-> {},
      nPlatforms |-> 0, nTargets |-> 0, stats |-> Stats(0, TRUE),
      ttlSec |-> 0, errorMsg |-> "Unknown message type" ]

\* zmq-server.ts 386-396
UnknownResponse(t) ==
    [ status |-> "error", timestamp |-> t, bestFitness |-> 0, assignment |-> {},
      nPlatforms |-> 0, nTargets |-> 0, stats |-> Stats(0, FALSE),
      ttlSec |-> 0, errorMsg |-> "Unknown message type" ]

DecodeFailedResponse_UnknownText(t) ==
    [ status |-> "error", timestamp |-> t, bestFitness |-> 0, assignment |-> {},
      nPlatforms |-> 0, nTargets |-> 0, stats |-> Stats(0, FALSE),
      ttlSec |-> 0, errorMsg |-> "Unknown message type" ]

\* zmq-server.ts 409-419
DecodeFailedResponse(t) ==
    [ status |-> "error", timestamp |-> t, bestFitness |-> 0, assignment |-> {},
      nPlatforms |-> 0, nTargets |-> 0, stats |-> Stats(0, FALSE),
      ttlSec |-> 0, errorMsg |-> "Protobuf decode failed" ]

\* The if / else-if chain of zmq-server.ts 128-384: the first populated field
\* in the order tested decides the branch.
Classify(message) ==
    IF message.statusReport # <<>> THEN "statusReport"
    ELSE IF message.planRequest # <<>> THEN "planRequest"
    ELSE IF message.entityKilled # <<>> THEN "entityKilled"
    ELSE IF message.damage # <<>> THEN "damage"
    ELSE IF message.fired # <<>> THEN "fired"
    ELSE "unknown"

\* The reply built by the branch that handles the decoded message.
BranchResponse(message, t) ==
    CASE Classify(message) = "statusReport" -> AckResponse(t)
      [] Classify(message) = "planRequest" ->
            PlanPlaceholderResponse(message.planRequest[1], t)
      [] Classify(message) \in {"entityKilled", "damage", "fired"} ->
            AckResponse(t)
      [] OTHER -> UnknownResponse(t)

\* ------------------------------------------------------------------- state
VARIABLES
    exited,      \* "no", or how the process ended
    now,         \* the wall clock
    latestData,  \* the snapshot
    wsClients,   \* the subscriber set
    sockets,     \* per connection: readyState and what was sent to it
    pc,          \* ingestion loop: "idle" (in receive) or "sending"
    tryLevel,    \* the pending send sits in the "inner" try or in its "catch"
    pending,     \* the reply handed to the pending sock.send
    nReq,        \* requests received so far
    request,     \* the request being handled, or the last one handled
    before,      \* the snapshot when that request arrived
    attempts,    \* replies handed to sock.send for that request
    replies,     \* replies sock.send delivered for that request
    raised,      \* sends of that request that were rejected
    updates,     \* the snapshots stored so far, in order
    dataChanged, \* the diagnostic computed for that request
    nPass,       \* calls of broadcastToClients so far
    sendFailed,  \* members whose client.send threw in the last pass
    nMsg,        \* messages received from subscribers so far
    wsMessage,   \* the last of them: the subscriber and the text
    original,    \* codec exercise: the frame handed to encode
    wire,        \* codec exercise: the bytes encode produced
    decoded,     \* codec exercise: what decode made of the bytes
    phase,       \* dashboard: "rendered", "mounted", "cleaned" or "gone"
    csockets,    \* dashboard: readyState of every WebSocket it created
    effectSocket,\* dashboard: the socket the effect's cleanup closes
    ws,          \* dashboard: the socket kept by setWs
    connected,   \* dashboard: the connected indicator
    timers,      \* dashboard: due times of the pending reconnect timers
    dashNow,     \* dashboard: Date.now() in the browser, in ms
    dashData,    \* dashboard: the payload kept by setData
    updateCount, \* dashboard: the update counter
    updateTimes, \* dashboard: the update-rate window
    arrivals,    \* times of all pushes that parsed, in arrival order
    nPush,       \* pushes received so far
    scale,       \* map: zoom scale, in thousandths
    offset,      \* map: pan offset << x, y >>
    isDragging,  \* map: a drag is under way
    dragStart,   \* map: where the drag started, less the offset
    mapEvent     \* map: the handler that ran last

vars ==
    << exited, now, latestData, wsClients, sockets, pc, tryLevel, pending,
       nReq, request, before, attempts, replies, raised, updates, dataChanged,
       nPass, sendFailed, nMsg, wsMessage, original, wire, decoded,
       phase, csockets, effectSocket, ws, connected, timers, dashNow, dashData,
       updateCount, updateTimes, arrivals, nPush,
       scale, offset, isDragging, dragStart, mapEvent >>

\* a process that goes on after its signal handler ran
running_AfterSignal == exited \in { "no", "signal" }

running == exited = "no"

wsVars == << wsClients, sockets >>
passVars == << nPass, sendFailed >>
msgVars == << nMsg, wsMessage >>
codecVars == << original, wire, decoded >>
connVars == << phase, csockets, effectSocket, ws, connected, timers >>
feedVars == << dashData, updateCount, updateTimes, arrivals, nPush >>
dashVars == << connVars, dashNow, feedVars >>
mapVars == << scale, offset, isDragging, dragStart, mapEvent >>
clientVars == << dashVars, mapVars >>
loopVars ==
    << pc, tryLevel, pending, nReq, request, before, attempts, replies, raised,
       updates, dataChanged >>
serverVars ==
    << exited, now, latestData, wsVars, passVars, msgVars, loopVars >>

\* zmq-server.ts 99-104
InitialData ==
    [ timestamp |-> <<>>, platforms |-> <<>>, targets |-> <<>>,
      messageType |-> "none" ]

\* the server after construction
InitServer ==
    /\ exited = "no"
    /\ now = 1
    /\ latestData = InitialData
    /\ wsClients = {}
    /\ sockets = [c \in Clients |-> [readyState |-> "CONNECTING", outbox |-> <<>>]]
    /\ pc = "idle"
    /\ tryLevel = "inner"
    /\ pending = <<>>
    /\ nReq = 0
    /\ request = <<>>
    /\ before = InitialData
    /\ attempts = <<>>
    /\ replies = <<>>
    /\ raised = 0
    /\ updates = <<>>
    /\ dataChanged = FALSE
    /\ nPass = 0
    /\ sendFailed = {}
    /\ nMsg = 0
    /\ wsMessage = <<>>

\* part_002 18-30: the dashboard as first rendered, its effect not yet run
InitDashboard ==
    /\ phase = "rendered"
    /\ csockets = <<>>
    /\ effectSocket = 0
    /\ ws = <<>>
    /\ connected = FALSE
    /\ timers = <<>>
    /\ dashNow = 0
    /\ dashData = <<>>
    /\ updateCount = 0
    /\ updateTimes = <<>>
    /\ arrivals = <<>>
    /\ nPush = 0

\* part_001 14-17: the map view as first rendered
InitMap ==
    /\ scale = 1000
    /\ offset = << 0, 0 >>
    /\ isDragging = FALSE
    /\ dragStart = << 0, 0 >>
    /\ mapEvent = "none"

InitClient == InitDashboard /\ InitMap

Init ==
    /\ InitServer /\ InitClient
    /\ original = <<>> /\ wire = <<>> /\ decoded = <<>>

\* --------------------------------------------------------------- fan-out
\* JSON.stringify(latestData) as sent to a subscriber
DataMessage(data) == [kind |-> "data", data |-> data]

\* a store that leaves the kind of the snapshot as it was
StoreReport_KeepsKind(statusReport, timestamp) ==
    [ timestamp |-> << timestamp >>, platforms |-> statusReport.platforms,
      targets |-> statusReport.targets, messageType |-> latestData.messageType ]

\* zmq-server.ts 201-204
StoreReport(statusReport, timestamp) ==
    [ timestamp |-> << timestamp >>, platforms |-> statusReport.platforms,
      targets |-> statusReport.targets, messageType |-> "status_report" ]

\* zmq-server.ts 450-461: the members marked in one pass, when the sends to
\* the members in raising throw
Disconnected(clients, socks, raising) ==
    { c \in clients : socks[c].readyState # "OPEN" \/ c \in raising }

\* the pass run after the timestamp was assigned and before the lists were
BroadcastSockets_HalfStored(clients, socks, data, raising) ==
    [c \in DOMAIN socks |->
        IF c \in clients /\ c \notin Disconnected(clients, socks, raising)
        THEN [socks[c] EXCEPT !.outbox =
                 Append(@, DataMessage([latestData EXCEPT
                                           !.timestamp = data.timestamp]))]
        ELSE socks[c]]

\* the pass that stops after the first member it serves
BroadcastSockets_FirstOnly(clients, socks, data, raising) ==
    [c \in DOMAIN socks |->
        IF /\ c \in clients /\ c \notin Disconnected(clients, socks, raising)
           /\ \A e \in clients \ Disconnected(clients, socks, raising) : c <= e
        THEN [socks[c] EXCEPT !.outbox = Append(@, DataMessage(data))]
        ELSE socks[c]]

\* the pass without the try around client.send: the first throw ends it
BroadcastSockets_AbortsOnThrow(clients, socks, data, raising) ==
    [c \in DOMAIN socks |->
        IF /\ c \in clients /\ c \notin Disconnected(clients, socks, raising)
           /\ \A e \in raising : c < e
        THEN [socks[c] EXCEPT !.outbox = Append(@, DataMessage(data))]
        ELSE socks[c]]

\* a pass that marks only the members whose send threw
BroadcastClients_KeepsNonOpen(clients, socks, raising) == clients \ raising

\* a pass over every open connection, member of the set or not
BroadcastSockets_ServesAllOpen(clients, socks, data, raising) ==
    [c \in DOMAIN socks |->
        IF socks[c].readyState = "OPEN" /\ c \notin raising
        THEN [socks[c] EXCEPT !.outbox = Append(@, DataMessage(data))]
        ELSE socks[c]]

\* a pass that is put off until after the reply
BroadcastSockets_Deferred(clients, socks, data, raising) == socks

\* a pass that serializes the snapshot as it was before the store
BroadcastSockets_Stale(clients, socks, data, raising) ==
    [c \in DOMAIN socks |->
        IF c \in clients /\ c \notin Disconnected(clients, socks, raising)
        THEN [socks[c] EXCEPT !.outbox = Append(@, DataMessage(latestData))]
        ELSE socks[c]]

\* zmq-server.ts 431-469, the set after the pass
BroadcastClients(clients, socks, raising) ==
    IF clients = {} THEN clients
    ELSE clients \ Disconnected(clients, socks, raising)

\* zmq-server.ts 431-469, the sockets after the pass
BroadcastSockets(clients, socks, data, raising) ==
    [ c \in Clients |->
        IF c \in clients /\ c \notin Disconnected(clients, socks, raising)
        THEN [socks[c] EXCEPT !.outbox = Append(@, DataMessage(data))]
        ELSE socks[c] ]

OpenMembers == { c \in wsClients : sockets[c].readyState = "OPEN" }

\* ------------------------------------------------------- ingestion loop
\* zmq-server.ts 125-128: the buffer decoded and statusReport is populated
IsReport(d) == d.ok /\ Classify(d.frame) = "statusReport"

NextData_StampsEveryRequest(d, data, t) ==
    IF IsReport(d) THEN StoreReport(d.frame.statusReport[1], t)
    ELSE [data EXCEPT !.timestamp = << t >>]

\* pos || { x: 0, y: 0 }
PosOrOrigin(pos) == IF pos = <<>> THEN << 0, 0 >> ELSE pos

\* a diagnostic that counts a move of exactly the threshold as a change
DataChanged_AtThreshold(oldPlatforms, newPlatforms) ==
    IF Len(oldPlatforms) = Len(newPlatforms)
    THEN /\ Len(oldPlatforms) > 0
         /\ LET oldPos == PosOrOrigin(oldPlatforms[1].pos)
                newPos == PosOrOrigin(newPlatforms[1].pos)
                dx == newPos[1] - oldPos[1]
                dy == newPos[2] - oldPos[2]
            IN  dx * dx + dy * dy >= MOVE_THRESHOLD * MOVE_THRESHOLD
    ELSE TRUE

\* zmq-server.ts 176-199: the change diagnostic of a status report against
\* the stored platforms; distMoved > 0.1 is compared in squares
DataChanged(oldPlatforms, newPlatforms) ==
    IF Len(oldPlatforms) = Len(newPlatforms)
    THEN /\ Len(oldPlatforms) > 0
         /\ LET oldPos == PosOrOrigin(oldPlatforms[1].pos)
                newPos == PosOrOrigin(newPlatforms[1].pos)
                dx == newPos[1] - oldPos[1]
                dy == newPos[2] - oldPos[2]
            IN  dx * dx + dy * dy > MOVE_THRESHOLD * MOVE_THRESHOLD
    ELSE TRUE

\* a store that the change diagnostic gates
NextData_OnlyWhenChanged(d, data, t) ==
    IF /\ IsReport(d)
       /\ DataChanged(data.platforms, d.frame.statusReport[1].platforms)
    THEN StoreReport(d.frame.statusReport[1], t)
    ELSE data

\* zmq-server.ts 128, 201-204: the snapshot after the request is handled
NextData(d, data, t) ==
    IF IsReport(d) THEN StoreReport(d.frame.statusReport[1], t) ELSE data

\* zmq-server.ts 124-422: the reply of the first sock.send of a request
FirstResponse(d, t) ==
    IF d.ok THEN BranchResponse(d.frame, t) ELSE DecodeFailedResponse(t)

\* a loop that runs a broadcast pass for every request
Receive_BroadcastsEveryRequest(buffer, raising) ==
    /\ running /\ pc = "idle" /\ nReq < MaxReq
    /\ LET d == Decode(buffer)
           isReport == IsReport(d)
           data == NextData(d, latestData, now)
           response == FirstResponse(d, now)
       IN  /\ latestData' = data
           /\ IF isReport
              THEN /\ dataChanged' = DataChanged(latestData.platforms,
                                       d.frame.statusReport[1].platforms)
                   /\ updates' = Append(updates, data)
                   /\ wsClients' = BroadcastClients(wsClients, sockets, raising)
                   /\ sockets' = BroadcastSockets(wsClients, sockets, data, raising)
                   /\ nPass' = nPass + 1
                   /\ sendFailed' = raising
              ELSE /\ dataChanged' = FALSE
                   /\ wsClients' = BroadcastClients(wsClients, sockets, raising)
                   /\ sockets' = BroadcastSockets(wsClients, sockets, data, raising)
                   /\ nPass' = nPass + 1
                   /\ sendFailed' = raising
                   /\ UNCHANGED updates
           /\ tryLevel' = IF d.ok THEN "inner" ELSE "catch"
           /\ pending' = << response >>
           /\ attempts' = << response >>
    /\ pc' = "sending"
    /\ nReq' = nReq + 1
    /\ request' = << buffer >>
    /\ before' = latestData
    /\ replies' = <<>>
    /\ raised' = 0
    /\ UNCHANGED << exited, now, msgVars, codecVars, clientVars >>

\* zmq-server.ts 116-229 for one request: receive, decode, classify, store
\* and broadcast a status report, build the reply and start its send.
Receive(buffer, raising) ==
    /\ running /\ pc = "idle" /\ nReq < MaxReq
    /\ LET d == Decode(buffer)
           isReport == IsReport(d)
           data == NextData(d, latestData, now)
           response == FirstResponse(d, now)
       IN  /\ latestData' = data
           /\ IF isReport
              THEN /\ dataChanged' = DataChanged(latestData.platforms,
                                       d.frame.statusReport[1].platforms)
                   /\ updates' = Append(updates, data)
                   /\ wsClients' = BroadcastClients(wsClients, sockets, raising)
                   /\ sockets' = BroadcastSockets(wsClients, sockets, data, raising)
                   /\ nPass' = nPass + 1
                   /\ sendFailed' = raising
              ELSE /\ raising = {}
                   /\ dataChanged' = FALSE
                   /\ UNCHANGED << wsVars, passVars, updates >>
           /\ tryLevel' = IF d.ok THEN "inner" ELSE "catch"
           /\ pending' = << response >>
           /\ attempts' = << response >>
    /\ pc' = "sending"
    /\ nReq' = nReq + 1
    /\ request' = << buffer >>
    /\ before' = latestData
    /\ replies' = <<>>
    /\ raised' = 0
    /\ UNCHANGED << exited, now, msgVars, codecVars, clientVars >>

\* await sock.send(...) resolves
SendOk ==
    /\ running /\ pc = "sending"
    /\ replies' = Append(replies, pending[1])
    /\ pending' = <<>>
    /\ pc' = "idle"
    /\ UNCHANGED << exited, now, latestData, wsVars, passVars, msgVars, codecVars, clientVars, tryLevel, nReq,
                    request, before, attempts, raised, updates, dataChanged >>

\* await sock.send(...) rejects inside the inner try: zmq-server.ts 401-421
SendRaiseInner ==
    /\ running /\ pc = "sending" /\ tryLevel = "inner"
    /\ tryLevel' = "catch"
    /\ pending' = << DecodeFailedResponse(now) >>
    /\ attempts' = Append(attempts, DecodeFailedResponse(now))
    /\ raised' = raised + 1
    /\ UNCHANGED << exited, now, latestData, wsVars, passVars, msgVars, codecVars, clientVars, pc, nReq,
                    request, before, replies, updates, dataChanged >>

SendRaiseCatch_Propagates ==
    /\ running /\ pc = "sending" /\ tryLevel = "catch"
    /\ exited' = "fatal"
    /\ raised' = raised + 1
    /\ UNCHANGED << now, latestData, wsVars, passVars, msgVars, codecVars, clientVars, pc, tryLevel, pending,
                    nReq, request, before, attempts, replies, updates,
                    dataChanged >>

\* await sock.send(...) rejects inside the catch block: zmq-server.ts 424-427
SendRaiseCatch ==
    /\ running /\ pc = "sending" /\ tryLevel = "catch"
    /\ pending' = <<>>
    /\ pc' = "idle"
    /\ raised' = raised + 1
    /\ UNCHANGED << exited, now, latestData, wsVars, passVars, msgVars, codecVars, clientVars, tryLevel, nReq,
                    request, before, attempts, replies, updates, dataChanged >>

\* the socket iterator of zmq-server.ts 116 throws: main() rejects and the
\* handler of 548-551 exits the process
ReceiveRaise ==
    /\ running /\ pc = "idle"
    /\ exited' = "fatal"
    /\ UNCHANGED << now, latestData, wsVars, passVars, msgVars, codecVars, clientVars, loopVars >>

\* ------------------------------------------------------ WebSocket server
\* a join handler that pushes the snapshot without looking at its timestamp
Connect_PushesUnconditionally(c) ==
    /\ running /\ sockets[c].readyState = "CONNECTING"
    /\ wsClients' = wsClients \cup {c}
    /\ sockets' = [sockets EXCEPT ![c] =
          [ readyState |-> "OPEN", outbox |-> << DataMessage(latestData) >> ]]
    /\ UNCHANGED << exited, now, latestData, passVars, msgVars, codecVars, clientVars, loopVars >>

\* zmq-server.ts 477-484: a connection is accepted
Connect(c) ==
    /\ running /\ sockets[c].readyState = "CONNECTING"
    /\ wsClients' = wsClients \cup {c}
    /\ sockets' = [sockets EXCEPT ![c] =
          [ readyState |-> "OPEN",
            outbox |-> IF latestData.timestamp # <<>>
                       THEN << DataMessage(latestData) >> ELSE <<>> ]]
    /\ UNCHANGED << exited, now, latestData, passVars, msgVars, codecVars, clientVars, loopVars >>

\* zmq-server.ts 477-484 when ws.send throws: the subscriber was added at
\* 478, the exception leaves the 'connection' listener uncaught and ends the
\* process
ConnectSendRaise(c) ==
    /\ running /\ sockets[c].readyState = "CONNECTING"
    /\ latestData.timestamp # <<>>
    /\ wsClients' = wsClients \cup {c}
    /\ sockets' = [sockets EXCEPT ![c].readyState = "OPEN"]
    /\ exited' = "uncaught"
    /\ UNCHANGED << now, latestData, passVars, msgVars, codecVars, clientVars, loopVars >>

\* the peer or the network starts closing a connection
StartClose(c) ==
    /\ running /\ sockets[c].readyState = "OPEN"
    /\ sockets' = [sockets EXCEPT ![c].readyState = "CLOSING"]
    /\ UNCHANGED << exited, now, latestData, wsClients, passVars, msgVars, codecVars, clientVars, loopVars >>

\* zmq-server.ts 495-498: the 'close' event
Close(c) ==
    /\ running /\ sockets[c].readyState = "CLOSING"
    /\ sockets' = [sockets EXCEPT ![c].readyState = "CLOSED"]
    /\ wsClients' = wsClients \ {c}
    /\ UNCHANGED << exited, now, latestData, passVars, msgVars, codecVars, clientVars, loopVars >>

\* the text a subscriber sends: the liveness probe or anything else
WsTexts == { "ping", "hello" }

\* ws.send('pong') as sent to a subscriber
PongMessage == [kind |-> "pong"]

\* a 'message' listener that answers whatever it is sent
Message_AnswersEverything(c, text) ==
    /\ running /\ sockets[c].readyState = "OPEN" /\ nMsg < MaxMsg
    /\ nMsg' = nMsg + 1
    /\ wsMessage' = << c, text >>
    /\ sockets' = [sockets EXCEPT ![c].outbox = Append(@, PongMessage)]
    /\ UNCHANGED << exited, now, latestData, wsClients, passVars, codecVars, clientVars,
                    loopVars >>

\* zmq-server.ts 487-492: the 'message' event of a joined subscriber
Message(c, text) ==
    /\ running /\ sockets[c].readyState = "OPEN" /\ nMsg < MaxMsg
    /\ nMsg' = nMsg + 1
    /\ wsMessage' = << c, text >>
    /\ sockets' = IF text = "ping"
                  THEN [sockets EXCEPT ![c].outbox = Append(@, PongMessage)]
                  ELSE sockets
    /\ UNCHANGED << exited, now, latestData, wsClients, passVars, codecVars, clientVars,
                    loopVars >>

\* zmq-server.ts 489-490 when ws.send('pong') throws: the exception leaves
\* the 'message' listener uncaught and ends the process
MessageSendRaise(c) ==
    /\ running /\ sockets[c].readyState = "OPEN" /\ nMsg < MaxMsg
    /\ nMsg' = nMsg + 1
    /\ wsMessage' = << c, "ping" >>
    /\ exited' = "uncaught"
    /\ UNCHANGED << now, latestData, wsVars, passVars, codecVars, clientVars, loopVars >>

\* zmq-server.ts 500-503: the 'error' event; the socket is closing when it
\* is emitted and its 'close' event follows
ErrorEvent(c) ==
    /\ running /\ sockets[c].readyState = "OPEN"
    /\ sockets' = [sockets EXCEPT ![c].readyState = "CLOSING"]
    /\ wsClients' = wsClients \ {c}
    /\ UNCHANGED << exited, now, latestData, passVars, msgVars, codecVars, clientVars,
                    loopVars >>

\* zmq-server.ts 537-545: SIGINT or SIGTERM, process.exit(0)
Signal ==
    /\ running
    /\ exited' = "signal"
    /\ UNCHANGED << now, latestData, wsVars, passVars, msgVars, codecVars, clientVars,
                    loopVars >>

\* --------------------------------------------------------------- clock
Tick ==
    /\ running /\ now < MaxClock
    /\ now' = now + 1
    /\ UNCHANGED << exited, latestData, wsVars, passVars, msgVars, codecVars, clientVars, loopVars >>

Next ==
    \/ \E buffer \in RequestBuffers, raising \in SUBSET OpenMembers :
          Receive(buffer, raising)
    \/ SendOk
    \/ SendRaiseInner
    \/ SendRaiseCatch
    \/ ReceiveRaise
    \/ \E c \in IngestClients : Connect(c)
    \/ \E c \in IngestClients : ConnectSendRaise(c)
    \/ \E c \in IngestClients : StartClose(c)
    \/ \E c \in IngestClients : Close(c)
    \/ Tick

Spec == Init /\ [][Next]_vars

\* the requests of the fan-out specification: status reports with zero, one
\* and MaxLen platforms, the first one at the origin, moved by the threshold
\* or moved beyond it, a plan request and an undecodable buffer
FanoutPlatformLists ==
    { <<>>, [i \in 1..MaxLen |-> [id |-> i, pos |-> << 0, 0 >>]] }
    \cup { << [id |-> 1, pos |-> << x, 0 >>] >> :
             x \in { 0, MOVE_THRESHOLD, MOVE_THRESHOLD + 1 } }

FanoutFrames ==
    { [EmptyFrame EXCEPT !.statusReport = << [platforms |-> ps, targets |-> <<>>] >>] :
        ps \in FanoutPlatformLists }
    \cup { [EmptyFrame EXCEPT !.planRequest = << [platforms |-> <<>>, targets |-> <<>>] >>] }

FanoutBuffers == { Encode(f) : f \in FanoutFrames } \cup { << 1, 7, 0 >> }

\* the same server with every subscriber connecting, closing and failing
NextFanout ==
    \/ \E buffer \in FanoutBuffers, raising \in SUBSET OpenMembers :
          Receive(buffer, raising)
    \/ SendOk
    \/ SendRaiseInner
    \/ SendRaiseCatch
    \/ ReceiveRaise
    \/ \E c \in Clients : Connect(c)
    \/ \E c \in Clients : ConnectSendRaise(c)
    \/ \E c \in Clients : StartClose(c)
    \/ \E c \in Clients : Close(c)
    \/ Tick

SpecFanout == Init /\ [][NextFanout]_vars

\* the requests of the session specification: a status report, a plan
\* request and an undecodable buffer
SessionFrames ==
    { [EmptyFrame EXCEPT !.statusReport =
          << [platforms |-> << [id |-> 1, pos |-> << 0, 0 >>] >>,
              targets |-> <<>>] >>],
      [EmptyFrame EXCEPT !.planRequest =
          << [platforms |-> <<>>, targets |-> <<>>] >>] }

SessionBuffers == { Encode(f) : f \in SessionFrames } \cup { << 1, 7, 0 >> }

\* the whole server: ingestion, subscriber sessions with probes and errors,
\* and the process signals
NextSession ==
    \/ \E buffer \in SessionBuffers, raising \in SUBSET OpenMembers :
          Receive(buffer, raising)
    \/ SendOk
    \/ SendRaiseInner
    \/ SendRaiseCatch
    \/ ReceiveRaise
    \/ \E c \in Clients : Connect(c)
    \/ \E c \in Clients : ConnectSendRaise(c)
    \/ \E c \in Clients, text \in WsTexts : Message(c, text)
    \/ \E c \in Clients : MessageSendRaise(c)
    \/ \E c \in Clients : StartClose(c)
    \/ \E c \in Clients : ErrorEvent(c)
    \/ \E c \in Clients : Close(c)
    \/ Signal
    \/ Tick

SpecSession == Init /\ [][NextSession]_vars

\* the value a populated field of a classifier frame holds
ClassifierValue(name) ==
    CASE name = "statusReport" ->
            [platforms |-> << [id |-> 1, pos |-> << 0, 0 >>] >>,
             targets |-> << [id |-> 1] >>]
      [] name = "planRequest" ->
            [platforms |-> << [id |-> 1, pos |-> <<>>], [id |-> 2, pos |-> <<>>] >>,
             targets |-> <<>>]
      [] OTHER -> [id |-> 1]

\* the frames with any set of fields populated, several at once included
ClassifierFrames ==
    { [name \in DOMAIN EmptyFrame |->
          IF name \in populated THEN << ClassifierValue(name) >> ELSE <<>>] :
        populated \in SUBSET DOMAIN EmptyFrame }

ClassifierBuffers == { Encode(f) : f \in ClassifierFrames }

\* the ingestion loop alone, fed frames with any combination of variants
NextClassifier ==
    \/ \E buffer \in ClassifierBuffers : Receive(buffer, {})
    \/ SendOk
    \/ SendRaiseInner
    \/ SendRaiseCatch
    \/ ReceiveRaise
    \/ Tick

SpecClassifier == Init /\ [][NextClassifier]_vars

\* the frames the codec is exercised on: every single-variant frame, the
\* empty frame and the frames with several variants populated
CodecFrames == SingleFrames \cup ClassifierFrames

InitCodec ==
    /\ InitServer /\ InitClient
    /\ original \in { << f >> : f \in CodecFrames }
    /\ wire = <<>>
    /\ decoded = <<>>

\* example-usage.ts 112: WTAMessage.encode(message).finish()
EncodeFrame ==
    /\ original # <<>> /\ wire = <<>>
    /\ wire' = << Encode(original[1]) >>
    /\ UNCHANGED << exited, now, latestData, wsVars, passVars, msgVars,
                    loopVars, clientVars, original, decoded >>

\* example-usage.ts 151: WTAMessage.decode(buffer)
DecodeWire ==
    /\ wire # <<>> /\ decoded = <<>>
    /\ decoded' = << Decode(wire[1]) >>
    /\ UNCHANGED << exited, now, latestData, wsVars, passVars, msgVars,
                    loopVars, clientVars, original, wire >>

NextCodec == EncodeFrame \/ DecodeWire

SpecCodec == InitCodec /\ [][NextCodec]_vars

\* ======================================================================
\* Properties of the ingestion loop
\* ======================================================================
\* the loop is back at the receive after handling a request
Handled == pc = "idle" /\ request # <<>>

\* the last request, decoded
Req == Decode(request[1])

\* the last request decoded and exactly this field of it is populated
Only(name) ==
    /\ request # <<>>
    /\ Req.ok
    /\ \A i \in 1..Len(FieldNames) :
          (Req.frame[FieldNames[i]] # <<>>) <=> (FieldNames[i] = name)

\* the last request is a decoded frame with statusReport populated
ReportRequest == request # <<>> /\ Req.ok /\ Req.frame.statusReport # <<>>

\* C1: once a request that decodes to a frame with statusReport populated
\* has been handled, the snapshot holds exactly that frame's platform and
\* target lists, a non-null timestamp and messageType "status_report", and
\* every reply delivered for the request has status "ok".
C1_ReportStoredAndAcknowledged ==
    (Handled /\ ReportRequest) =>
        /\ latestData.platforms = Req.frame.statusReport[1].platforms
        /\ latestData.targets = Req.frame.statusReport[1].targets
        /\ latestData.timestamp # <<>>
        /\ latestData.messageType = "status_report"
        /\ \A i \in 1..Len(replies) : replies[i].status = "ok"

\* C2: a request that is not a status report (any other variant, no variant,
\* or bytes that do not decode) leaves timestamp, platforms, targets and
\* messageType of the snapshot as they were when it arrived.
C2_NonReportLeavesSnapshot ==
    (request # <<>> /\ ~ReportRequest) => latestData = before

C2_Witness ==
    /\ Handled /\ Only("planRequest")
    /\ before.timestamp # <<>>
    /\ Len(replies) = 1

\* C3: every handled request got exactly one reply: one send was made for it
\* and one reply was delivered, also when a send was rejected.
C3_ExactlyOneReply ==
    Handled => Len(attempts) = 1 /\ Len(replies) = 1

\* C4: request n+1 is accepted only after the reply to request n has been
\* delivered, one receive and one send per cycle.
C4_StrictAlternation ==
    [][(nReq' = nReq + 1 /\ request # <<>>) =>
            Len(replies) = 1 /\ Len(attempts) = 1]_vars

\* C5: for a request whose bytes do not decode the loop makes exactly one
\* send, of a reply with status "error", errorMsg "Protobuf decode failed"
\* and stats.isValid false; that reply is what is delivered (nothing when the
\* transport rejects the send); and handling such a request never ends the
\* process: it ends only from the receive.
C5_DecodeFailureReply ==
    (request # <<>> /\ ~Req.ok) =>
        /\ Len(attempts) = 1
        /\ attempts[1].status = "error"
        /\ attempts[1].errorMsg = "Protobuf decode failed"
        /\ attempts[1].stats.isValid = FALSE
        /\ Handled => replies = (IF raised = 0 THEN attempts ELSE <<>>)
        /\ exited = "fatal" => pc = "idle"

C5_Witness ==
    /\ Handled /\ ~Req.ok
    /\ nReq = MaxReq
    /\ before.timestamp # <<>>
    /\ Len(replies) = 1

C7_UnknownReply ==
    (Handled /\ Req.ok /\ Classify(Req.frame) = "unknown") =>
        \A i \in 1..Len(replies) :
            /\ replies[i].status = "error"
            /\ replies[i].errorMsg = "Unknown message type"
            /\ replies[i].stats.isValid = FALSE

\* C8: the reply to a PlanRequest with p platforms and t targets has status
\* "ok", an empty assignment, nPlatforms p, nTargets t, ttlSec 2.0,
\* stats.isValid true and an empty errorMsg.
C8_PlanReply ==
    (Handled /\ Only("planRequest")) =>
        \A i \in 1..Len(replies) :
            /\ replies[i].status = "ok"
            /\ replies[i].assignment = {}
            /\ replies[i].nPlatforms = Len(Req.frame.planRequest[1].platforms)
            /\ replies[i].nTargets = Len(Req.frame.planRequest[1].targets)
            /\ replies[i].ttlSec = 2000
            /\ replies[i].stats.isValid = TRUE
            /\ replies[i].errorMsg = ""

\* the fields of the acknowledgment, the reply timestamp apart
IsAck(r) ==
    /\ r.status = "ok"
    /\ r.bestFitness = 0
    /\ r.assignment = {}
    /\ r.nPlatforms = 0
    /\ r.nTargets = 0
    /\ r.stats = [ computationTime |-> 0, iterations |-> 0,
                   isValid |-> TRUE, coverageRate |-> 0 ]
    /\ r.ttlSec = 0
    /\ r.errorMsg = ""

\* C9: the reply to a StatusReport has status "ok", an empty assignment,
\* computationTime, iterations and coverageRate 0 and ttlSec 0.
C9_ReportAck ==
    (Handled /\ ReportRequest) =>
        \A i \in 1..Len(replies) :
            /\ replies[i].status = "ok"
            /\ replies[i].assignment = {}
            /\ replies[i].stats.computationTime = 0
            /\ replies[i].stats.iterations = 0
            /\ replies[i].stats.coverageRate = 0
            /\ replies[i].ttlSec = 0

\* C10: the reply to an EntityKilled, Damage or Fired frame equals the
\* StatusReport acknowledgment in every field but the timestamp.
C10_EventAck ==
    (Handled /\ (Only("entityKilled") \/ Only("damage") \/ Only("fired"))) =>
        \A i \in 1..Len(replies) : IsAck(replies[i])

\* ======================================================================
\* Properties of the fan-out to subscribers
\* ======================================================================
\* the snapshots as they stood after each completed update
Stored == { updates[i] : i \in 1..Len(updates) }

\* the snapshot payloads in an outbox
Payloads(box) == { box[i].data : i \in { j \in 1..Len(box) : box[j].kind = "data" } }

\* the step handles a request that decodes to a status report
ReportStep ==
    /\ nReq' = nReq + 1
    /\ LET d == Decode(request'[1]) IN d.ok /\ d.frame.statusReport # <<>>

\* the step sends subscriber c exactly one push, the snapshot it stored
Pushed(c) ==
    sockets'[c].outbox = Append(sockets[c].outbox, DataMessage(latestData'))

\* the step sends subscriber c nothing
NotSent(c) == sockets'[c].outbox = sockets[c].outbox

\* C11: every snapshot payload sent to a subscriber, by the push on join or
\* by a broadcast pass, is the snapshot as it stood after one completed
\* update, never a mix of two reports, and the subscribers served by one step
\* all receive the same payload.
C11_PayloadIsOneStoredSnapshot ==
    [][ /\ \A c \in Clients : Payloads(sockets'[c].outbox) \subseteq Stored'
        /\ \A c, e \in Clients :
              (~NotSent(c) /\ ~NotSent(e)) =>
                  /\ sockets'[c].outbox = Append(sockets[c].outbox,
                         sockets'[c].outbox[Len(sockets'[c].outbox)])
                  /\ sockets'[c].outbox[Len(sockets'[c].outbox)] =
                         sockets'[e].outbox[Len(sockets'[e].outbox)] ]_vars

\* two subscribers were served by the pass of a second report that differs
\* from the first one
C11_Witness ==
    /\ Len(updates) = 2
    /\ updates[1].platforms # updates[2].platforms
    /\ \A c \in Clients :
          /\ Len(sockets[c].outbox) = 2
          /\ sockets[c].outbox[2] = DataMessage(updates[2])

\* C12: on every snapshot update, each subscriber that is in the set and
\* reports the open state is sent exactly one push, carrying the snapshot
\* just stored, unless the send to that subscriber itself fails, in which
\* case it is sent nothing.
C12_EveryOpenMemberPushedOnce ==
    [][ReportStep =>
          \A c \in OpenMembers :
              IF c \in sendFailed' THEN NotSent(c) ELSE Pushed(c)]_vars

\* a pass has just served one open member while the send to another failed
C12_Witness ==
    /\ pc = "sending" /\ ReportRequest
    /\ \E c, e \in Clients :
          /\ e \in sendFailed
          /\ c \in wsClients
          /\ Len(sockets[c].outbox) = 2
          /\ sockets[c].outbox[2] = DataMessage(latestData)

\* the step runs the join handler of subscriber c
JoinStep(c) ==
    sockets[c].readyState = "CONNECTING" /\ sockets'[c].readyState = "OPEN"

\* C13: the join handler adds the subscriber to the set; when no status
\* report has been ingested (timestamp null) it sends the subscriber
\* nothing, otherwise it issues exactly one send, of the current snapshot:
\* the subscriber is sent that snapshot once, or the send throws.
C13_JoinPushesCurrentSnapshot ==
    [][\A c \in Clients :
          JoinStep(c) =>
              /\ c \in wsClients'
              /\ IF latestData.timestamp = <<>>
                 THEN sockets'[c].outbox = <<>> /\ exited' = exited
                 ELSE \/ /\ sockets'[c].outbox = << DataMessage(latestData) >>
                         /\ exited' = exited
                      \/ /\ sockets'[c].outbox = <<>>
                         /\ exited' = "uncaught"]_vars

\* one subscriber joined, was sent nothing and left; another one holds the
\* snapshot of the only report as the one message it was sent
C13_Witness ==
    /\ running
    /\ Len(updates) = 1
    /\ \E c, e \in Clients :
          /\ sockets[c].readyState = "CLOSED"
          /\ sockets[c].outbox = <<>>
          /\ e \in wsClients
          /\ sockets[e].outbox = << DataMessage(latestData) >>

\* C14: when the send to a subscriber fails during a pass, every other open
\* member is still sent that pass's payload, and the failed subscriber is
\* out of the set from the end of the pass on, so it is absent when the
\* next pass starts.
C14_FailedSendIsolated ==
    [][ /\ (ReportStep /\ sendFailed' # {}) =>
              \A c \in OpenMembers \ sendFailed' : Pushed(c)
        /\ sendFailed' \cap wsClients' = {} ]_vars

\* the send to subscriber 1 failed in the second pass, subscriber 2 was sent
\* the payloads of both passes
C14_Witness ==
    /\ nPass = 2 /\ Len(updates) = 2
    /\ sendFailed = { 1 }
    /\ 1 \notin wsClients
    /\ sockets[1].outbox = << DataMessage(updates[1]) >>
    /\ sockets[2].outbox = << DataMessage(updates[1]), DataMessage(updates[2]) >>

\* the members a pass over the current set marks: those not reporting the
\* open state and those whose send threw
Marked ==
    { c \in wsClients : sockets[c].readyState # "OPEN" \/ c \in sendFailed' }

\* C15: a pass visits every member of the set as it stood when the pass
\* began: members that raise or are not open are sent nothing and are only
\* marked, every other member is served, and after the pass the set is
\* exactly the previous set minus the marked members.
C15_PruningDeferred ==
    [][ReportStep =>
          /\ wsClients' = wsClients \ Marked
          /\ \A c \in Marked : NotSent(c)
          /\ \A c \in wsClients \ Marked : Pushed(c)
          /\ \A c \in Clients \ wsClients : NotSent(c)
          /\ \A c \in Clients :
                sockets'[c].readyState = sockets[c].readyState]_vars

\* the first pass found one member closing and removed it, no send threw,
\* and the other member was served
C15_Witness ==
    /\ nPass = 1 /\ sendFailed = {}
    /\ \E c, e \in Clients :
          /\ sockets[c].readyState = "CLOSING"
          /\ c \notin wsClients
          /\ e \in wsClients
          /\ sockets[e].outbox = << DataMessage(latestData) >>

\* C16: a failed send of a snapshot, in a broadcast pass or in the push on
\* join, is recovered locally: the subscriber is removed from the set and
\* the process goes on, the failure does not stop the server or the loop.
C16_SendFailureRecoveredLocally ==
    [][ /\ ReportStep =>
              (sendFailed' \cap wsClients' = {} /\ exited' = exited)
        /\ \A c \in Clients :
              (JoinStep(c) /\ latestData.timestamp # <<>>
                           /\ sockets'[c].outbox = <<>>) =>
                  (c \notin wsClients' /\ exited' = exited) ]_vars

\* ======================================================================
\* Properties of the ingestion loop, continued
\* ======================================================================
\* a report with these platforms counts as unchanged against the stored
\* ones: the same count, and both lists empty or the first platform moved
\* no more than the threshold
Unchanged(old, new) ==
    /\ Len(old) = Len(new)
    /\ \/ Len(old) = 0
       \/ LET o == PosOrOrigin(old[1].pos)
              n == PosOrOrigin(new[1].pos)
          IN  (n[1] - o[1]) * (n[1] - o[1]) + (n[2] - o[2]) * (n[2] - o[2])
                  <= MOVE_THRESHOLD * MOVE_THRESHOLD

\* C17: the change diagnostic never gates storage or broadcast: for every
\* status report, whether the diagnostic finds it changed or unchanged, the
\* snapshot is replaced by the report's lists with the arrival time and a
\* broadcast pass is run that serves every open member whose send does not
\* fail.
C17_DiagnosticNeverGates ==
    [][ReportStep =>
          LET report == Decode(request'[1]).frame.statusReport[1]
          IN  /\ dataChanged' = ~Unchanged(latestData.platforms, report.platforms)
              /\ latestData' = [ timestamp |-> << now >>,
                                 platforms |-> report.platforms,
                                 targets |-> report.targets,
                                 messageType |-> "status_report" ]
              /\ nPass' = nPass + 1
              /\ \A c \in OpenMembers \ sendFailed' : Pushed(c)]_vars

\* a report whose only platform moved by no more than the threshold was
\* found unchanged, and was stored and pushed to a subscriber all the same
C17_Witness ==
    /\ ReportRequest /\ ~dataChanged
    /\ Len(before.platforms) = 1
    /\ latestData.platforms # before.platforms
    /\ latestData.platforms = Req.frame.statusReport[1].platforms
    /\ \E c \in wsClients :
          sockets[c].outbox = << DataMessage(before), DataMessage(latestData) >>

\* C18: a failure to read or to write the ingestion transport is fatal: once
\* a reply send has failed the loop accepts no further request, and a failed
\* receive ends the process.
C18_TransportFailureFatal ==
    [][ /\ raised > 0 => nReq' = nReq
        /\ exited = "fatal" => nReq' = nReq ]_vars

\* the fields of a reply and of its statistics
ResponseFields ==
    { "status", "timestamp", "bestFitness", "assignment", "nPlatforms",
      "nTargets", "stats", "ttlSec", "errorMsg" }

StatsFields == { "computationTime", "iterations", "isValid", "coverageRate" }

\* C19: every reply handed to the transport, on every path including the
\* unknown-frame and the decode-failure path, carries all nine reply fields
\* and all four statistics fields, and its status is "ok" or "error".
C19_RepliesComplete ==
    \A i \in 1..Len(attempts) :
        /\ DOMAIN attempts[i] = ResponseFields
        /\ DOMAIN attempts[i].stats = StatsFields
        /\ attempts[i].status \in { "ok", "error" }

\* both error replies were handed to the transport for one request
C19_Witness ==
    /\ Len(attempts) = 2
    /\ attempts[1].errorMsg = "Unknown message type"
    /\ attempts[2].errorMsg = "Protobuf decode failed"

\* the snapshot is in its initial form exactly while nothing was ingested
SnapshotLifecycle ==
    /\ (latestData.timestamp = <<>>) <=> (latestData.messageType = "none")
    /\ (latestData.timestamp = <<>>) <=> (updates = <<>>)
    /\ latestData.timestamp = <<>> =>
          (latestData.platforms = <<>> /\ latestData.targets = <<>>)
    /\ latestData.timestamp # <<>> => latestData.messageType = "status_report"

\* C20: the snapshot starts as (null, [], [], "none") and is replaced exactly
\* once per ingested status report and by nothing else; in every state its
\* timestamp is null iff its kind is "none" iff no report has been ingested,
\* and then both lists are empty; once a report has been ingested the
\* timestamp is never null again and the kind stays "status_report".
C20_SnapshotLifecycle ==
    /\ latestData = [ timestamp |-> <<>>, platforms |-> <<>>, targets |-> <<>>,
                      messageType |-> "none" ]
    /\ []SnapshotLifecycle
    /\ [][ /\ IF ReportStep
              THEN /\ Len(updates') = Len(updates) + 1
                   /\ latestData' = updates'[Len(updates')]
              ELSE latestData' = latestData /\ updates' = updates
           /\ latestData.timestamp # <<>> =>
                 /\ latestData'.timestamp # <<>>
                 /\ latestData'.messageType = "status_report" ]_vars

\* a report with empty lists was ingested and then a request that is not a
\* report was handled: the lists are empty and the timestamp is set
C20_Witness ==
    /\ Handled /\ ~ReportRequest /\ nReq = 2
    /\ Len(updates) = 1
    /\ latestData = updates[1]
    /\ latestData.platforms = <<>> /\ latestData.targets = <<>>
    /\ latestData.timestamp # <<>>

\* ======================================================================
\* Properties of the subscriber sessions
\* ======================================================================
\* the step runs the 'message' listener of some subscriber
MessageStep == nMsg' = nMsg + 1

\* C21: a "ping" text from a subscriber is answered by one "pong" to that
\* subscriber and to no other (one ws.send('pong') is issued: the pong is
\* sent, or the send throws); any other text is answered with nothing; no
\* message changes the snapshot or the subscriber set; and everything ever
\* sent to a subscriber is a "pong" or a stored snapshot.
C21_PingPong ==
    [][ /\ MessageStep =>
              LET c == wsMessage'[1]
                  text == wsMessage'[2]
              IN  /\ latestData' = latestData
                  /\ wsClients' = wsClients
                  /\ \A e \in Clients \ {c} : NotSent(e)
                  /\ IF text = "ping"
                     THEN \/ /\ sockets'[c].outbox =
                                   Append(sockets[c].outbox, [kind |-> "pong"])
                             /\ exited' = exited
                          \/ NotSent(c) /\ exited' = "uncaught"
                     ELSE NotSent(c) /\ exited' = exited
        /\ \A c \in Clients :
              /\ \A i \in 1..Len(sockets'[c].outbox) :
                    \/ sockets'[c].outbox[i] = [kind |-> "pong"]
                    \/ /\ sockets'[c].outbox[i].kind = "data"
                       /\ sockets'[c].outbox[i].data \in Stored'
              /\ Len(sockets'[c].outbox) > Len(sockets[c].outbox) =>
                    (sockets'[c].outbox[Len(sockets'[c].outbox)].kind = "pong"
                        <=> MessageStep) ]_vars

\* a subscriber that was pushed a snapshot probed and was answered, the
\* other subscriber was sent the snapshot only
C21_Witness ==
    /\ running /\ nMsg = 1
    /\ wsMessage = << 1, "ping" >>
    /\ Len(sockets[1].outbox) = 2
    /\ sockets[1].outbox[1].kind = "data"
    /\ sockets[1].outbox[2] = PongMessage
    /\ sockets[2].outbox = << sockets[1].outbox[1] >>

\* the step sends subscriber c a snapshot
SentData(c) ==
    /\ Len(sockets'[c].outbox) > Len(sockets[c].outbox)
    /\ sockets'[c].outbox[Len(sockets'[c].outbox)].kind = "data"

\* C22: a subscriber enters the set only in its join handler; it leaves the
\* set only at its own close or error event or when a broadcast pass that
\* marked it ends; a connection joins once, so a subscriber that was removed
\* is never in the set again and is sent no snapshot by any later pass, even
\* while its connection is still open.
C22_MembershipEvents ==
    [][\A c \in Clients :
          /\ c \in wsClients' \ wsClients => JoinStep(c)
          /\ c \in wsClients \ wsClients' =>
                \/ sockets'[c].readyState # sockets[c].readyState
                \/ ReportStep /\ c \in Marked
          /\ sockets[c].readyState # "CONNECTING" =>
                sockets'[c].readyState # "CONNECTING"
          /\ (c \notin wsClients /\ sockets[c].readyState # "CONNECTING") =>
                (c \notin wsClients' /\ ~SentData(c))]_vars

\* a subscriber was pruned by the first pass and its connection stayed
\* open; the second pass served the other subscriber and not this one
C22_Witness ==
    /\ nPass = 2 /\ sendFailed = {}
    /\ \E c, e \in Clients :
          /\ c \notin wsClients
          /\ sockets[c].readyState = "OPEN"
          /\ sockets[c].outbox = <<>>
          /\ e \in wsClients
          /\ Len(sockets[e].outbox) = 2
          /\ sockets[e].outbox[2] = DataMessage(latestData)

\* C23: a broadcast with an empty subscriber set is a no-op and not an
\* error: the step that ingests a status report with no subscriber sends
\* nothing and leaves the set empty, the report is stored, and the reply
\* delivered for that report has status "ok".
C23_EmptyBroadcastNoOp ==
    [][ /\ (ReportStep /\ wsClients = {}) =>
              /\ sockets' = sockets
              /\ wsClients' = {}
              /\ exited' = exited
              /\ LET report == Decode(request'[1]).frame.statusReport[1]
                 IN  /\ latestData'.platforms = report.platforms
                     /\ latestData'.targets = report.targets
                     /\ latestData'.messageType = "status_report"
        /\ (ReportRequest /\ nPass > 0 /\ wsClients = {}
               /\ \A c \in Clients : sockets[c].readyState = "CONNECTING"
               /\ Len(replies') > Len(replies)) =>
              replies'[Len(replies')].status = "ok" ]_vars

\* ======================================================================
\* Properties of the classifier
\* ======================================================================
\* the variants in the order the claim gives
VariantOrder == << "statusReport", "planRequest", "entityKilled", "damage", "fired" >>

\* the first variant of that order a frame has populated, "" if none
FirstVariant(f) ==
    LET populated == { i \in 1..Len(VariantOrder) : f[VariantOrder[i]] # <<>> }
    IN  IF populated = {} THEN ""
        ELSE VariantOrder[CHOOSE i \in populated : \A j \in populated : i <= j]

\* the reply of the handler of a variant
VariantReply(variant, f, r) ==
    CASE variant = "planRequest" ->
            /\ r.status = "ok" /\ r.ttlSec = TTL_PLAN
            /\ r.nPlatforms = Len(f.planRequest[1].platforms)
            /\ r.nTargets = Len(f.planRequest[1].targets)
      [] variant = "" -> r.errorMsg = "Unknown message type"
      [] OTHER -> IsAck(r)

\* C24: a decoded frame with more than one variant populated is handled as
\* exactly one variant, the first populated in the order statusReport,
\* planRequest, entityKilled, damage, fired: exactly one reply is sent, it is
\* the reply of that variant's handler, and the snapshot is updated exactly
\* when statusReport is among the populated variants.
C24_FirstMatchWins ==
    (Handled /\ Req.ok /\ NumPopulated(Req.frame) > 1) =>
        /\ Len(attempts) = 1
        /\ VariantReply(FirstVariant(Req.frame), Req.frame, attempts[1])
        /\ IF Req.frame.statusReport # <<>>
           THEN /\ latestData.platforms = Req.frame.statusReport[1].platforms
                /\ latestData.targets = Req.frame.statusReport[1].targets
                /\ Len(updates) = nPass /\ updates[nPass] = latestData
           ELSE latestData = before

\* ======================================================================
\* Properties of the process
\* ======================================================================
\* C25: on SIGINT or SIGTERM both activities stop: from the step that
\* handles the signal on, no request is accepted, no reply is handed to the
\* transport or delivered, no subscriber is accepted and nothing is sent to
\* a subscriber; a send that was in flight is left as it was, not flushed.
C25_SignalStopsBoth ==
    [][(exited = "signal" \/ exited' = "signal") =>
          /\ nReq' = nReq
          /\ attempts' = attempts
          /\ replies' = replies
          /\ pending' = pending /\ pc' = pc
          /\ wsClients' = wsClients
          /\ sockets' = sockets
          /\ latestData' = latestData]_vars

\* the signal came while a reply was in flight and a connection was still
\* to be accepted
C25_Witness ==
    /\ exited = "signal"
    /\ pc = "sending" /\ pending # <<>> /\ replies = <<>>
    /\ \E c \in Clients : sockets[c].readyState = "CONNECTING"
    /\ wsClients # {}

C27_ReplyReportsCounts ==
    (ReportRequest /\ attempts # <<>>) =>
        /\ attempts[1].status = "ok"
        /\ attempts[1].nPlatforms = Len(Req.frame.statusReport[1].platforms)
        /\ attempts[1].nTargets = Len(Req.frame.statusReport[1].targets)

\* ======================================================================
\* Properties of the fan-out, continued
\* ======================================================================
\* C28: store, broadcast, reply happen in this order: the step that ingests
\* a status report stores it and completes the pass over the whole set (every
\* open member whose send does not fail is sent the new snapshot) before any
\* reply to it is delivered; the reply is delivered by a later step, which
\* finds the snapshot holding that report and the pass for it already run.
C28_StoreBroadcastReply ==
    [][ /\ ReportStep =>
              LET report == Decode(request'[1]).frame.statusReport[1]
              IN  /\ latestData'.platforms = report.platforms
                  /\ latestData'.targets = report.targets
                  /\ nPass' = nPass + 1
                  /\ \A c \in OpenMembers \ sendFailed' : Pushed(c)
                  /\ replies' = <<>>
        /\ (ReportRequest /\ Len(replies') > Len(replies)) =>
              /\ nReq' = nReq
              /\ latestData.platforms = Req.frame.statusReport[1].platforms
              /\ latestData.targets = Req.frame.statusReport[1].targets
              /\ updates # <<>> /\ updates[Len(updates)] = latestData
              /\ nPass = Len(updates)
              /\ latestData' = latestData
              /\ sockets' = sockets ]_vars

\* the acknowledgment of the second report was delivered after both
\* subscribers were sent its snapshot
C28_Witness ==
    /\ ReportRequest /\ Len(replies) = 1 /\ IsAck(replies[1])
    /\ nPass = 2 /\ updates[1] # updates[2]
    /\ wsClients = Clients
    /\ \A c \in Clients :
          sockets[c].outbox[Len(sockets[c].outbox)] = DataMessage(updates[2])

\* the snapshots sent to a subscriber, in the order they were sent
DataSeq(box) ==
    LET sent == SelectSeq(box, LAMBDA m : m.kind = "data")
    IN  [i \in 1..Len(sent) |-> sent[i].data]

\* C29: the snapshots sent to any one subscriber are a run of consecutive
\* updates in ingestion order: never an older one after a newer one, and
\* never the same update twice, whether it came from the push on join or
\* from a broadcast pass, also when the join falls between a report and the
\* delivery of its reply.
C29_PerSubscriberOrder ==
    \A c \in Clients :
        \E i \in 1..(Len(updates) + 1), j \in 0..Len(updates) :
            DataSeq(sockets[c].outbox) = SubSeq(updates, i, j)

\* while the reply to the second report is in flight one subscriber holds
\* both updates in order and the other holds the second one once
C29_Witness ==
    /\ pc = "sending" /\ Len(updates) = 2
    /\ updates[1] # updates[2]
    /\ wsClients = Clients
    /\ DataSeq(sockets[1].outbox) = updates
    /\ DataSeq(sockets[2].outbox) = << updates[2] >>

\* C30: a snapshot is sent to a subscriber only by that subscriber's join
\* handler when the timestamp is non-null and by the pass of a step that
\* ingests a status report; a request of any other kind (plan request,
\* event, unknown, undecodable), and the sending of any reply, sends nothing
\* to any subscriber and leaves the subscriber set as it was.
C30_PushOnlyOnJoinOrReport ==
    [][ /\ \A c \in Clients :
              SentData(c) =>
                  \/ JoinStep(c) /\ latestData.timestamp # <<>>
                  \/ ReportStep
        /\ (nReq' = nReq + 1 /\ ~ReportStep) =>
              (sockets' = sockets /\ wsClients' = wsClients)
        /\ (nReq' = nReq /\ (attempts' # attempts \/ replies' # replies
                                                    \/ raised' # raised)) =>
              (sockets' = sockets /\ wsClients' = wsClients) ]_vars

\* a plan request was handled after a report while a subscriber was open in
\* the set: the subscriber holds the one snapshot only
C30_Witness ==
    /\ Handled /\ Only("planRequest") /\ nReq = 2
    /\ Len(updates) = 1
    /\ \E c \in OpenMembers : sockets[c].outbox = << DataMessage(latestData) >>

\* ======================================================================
\* Properties of the error replies
\* ======================================================================
\* C31: a reply with errorMsg "Protobuf decode failed" is handed to the
\* transport only for a request whose bytes did not decode: never for a
\* request that decoded, and so never for one that has replaced the snapshot
\* or run a broadcast pass.
C31_DecodeFailedOnlyForUndecodable ==
    \A i \in 1..Len(attempts) :
        attempts[i].errorMsg = "Protobuf decode failed" =>
            /\ ~Req.ok
            /\ latestData = before
            /\ nPass = 0 \/ ~ReportRequest

\* the three failure indicators of a reply agree, and an error reply carries
\* no plan
Coherent(r) ==
    /\ (r.status = "error") <=> (r.stats.isValid = FALSE)
    /\ (r.status = "error") <=> (r.errorMsg # "")
    /\ r.status \in { "ok", "error" }
    /\ r.status = "error" =>
          /\ r.assignment = {}
          /\ r.nPlatforms = 0
          /\ r.nTargets = 0
          /\ r.ttlSec = 0

\* C32: in every reply handed to the transport, and so in every reply
\* delivered, status is "error" iff stats.isValid is false iff errorMsg is
\* non-empty, and an error reply has an empty assignment, nPlatforms 0,
\* nTargets 0 and ttlSec 0.
C32_FailureIndicatorsAgree ==
    /\ \A i \in 1..Len(attempts) : Coherent(attempts[i])
    /\ \A i \in 1..Len(replies) : Coherent(replies[i])
    /\ \A i \in 1..Len(pending) : Coherent(pending[i])

\* after a stored report, a frame with no handled variant was answered with
\* the delivered error reply
C32_Witness ==
    /\ Handled /\ Req.ok /\ Classify(Req.frame) = "unknown"
    /\ before.timestamp # <<>>
    /\ replies = attempts /\ Len(replies) = 1
    /\ replies[1].status = "error" /\ replies[1].errorMsg = "Unknown message type"
    /\ replies[1].stats.isValid = FALSE

\* the step receives a frame whose only populated field is planResponse
PlanResponseStep ==
    /\ nReq' = nReq + 1
    /\ LET d == Decode(request'[1])
       IN  /\ d.ok
           /\ \A i \in 1..Len(FieldNames) :
                 (d.frame[FieldNames[i]] # <<>>) <=> (FieldNames[i] = "planResponse")

\* C33: a frame whose only populated field is planResponse is classified as
\* unknown: receiving it leaves the snapshot, the subscriber set and every
\* outbox as they were and runs no broadcast pass, and the reply it gets is
\* the error reply with errorMsg "Unknown message type".
C33_PlanResponseUnknown ==
    /\ [][PlanResponseStep =>
            /\ latestData' = latestData
            /\ sockets' = sockets /\ wsClients' = wsClients
            /\ nPass' = nPass /\ updates' = updates
            /\ attempts'[1].status = "error"
            /\ attempts'[1].errorMsg = "Unknown message type"]_vars
    /\ [](Handled /\ Only("planResponse") =>
            /\ latestData = before
            /\ Len(replies) = 1
            /\ replies[1].status = "error"
            /\ replies[1].errorMsg = "Unknown message type")

\* ======================================================================
\* The dashboard client (part_002, app/page.tsx)
\* ======================================================================
\* a component that is still there: its state setters take effect
Alive == phase # "gone"

\* part_002 34, 83: new WebSocket(...) and setWs(socket)
NewSocket == Append(csockets, "CONNECTING")

\* part_002 90-93: the effect runs connectWebSocket and keeps its return
\* value as cleanup; with reactStrictMode (next.config.js 3) it runs a second
\* time after the first cleanup
Effect ==
    /\ phase \in { "rendered", "cleaned" }
    /\ Len(csockets) < MaxSockets
    /\ csockets' = NewSocket
    /\ ws' = << Len(csockets) + 1 >>
    /\ effectSocket' = Len(csockets) + 1
    /\ phase' = "mounted"
    /\ UNCHANGED << connected, timers, dashNow, feedVars, mapVars, serverVars,
                    codecVars >>

\* WebSocket.close(): a socket that is not yet closed starts closing
CloseCall(state) ==
    IF state \in { "CONNECTING", "OPEN" } THEN "CLOSING" ELSE state

\* part_002 85-87: the cleanup closes the socket its effect created
Cleanup ==
    /\ phase = "mounted"
    /\ csockets' = [csockets EXCEPT ![effectSocket] = CloseCall(@)]
    /\ phase' = "cleaned"
    /\ UNCHANGED << effectSocket, ws, connected, timers, dashNow, feedVars,
                    mapVars, serverVars, codecVars >>

\* the component is unmounted for good after its cleanup
Discard ==
    /\ phase = "cleaned"
    /\ phase' = "gone"
    /\ UNCHANGED << csockets, effectSocket, ws, connected, timers, dashNow,
                    feedVars, mapVars, serverVars, codecVars >>

\* part_002 36-39: onopen
SockOpen(i) ==
    /\ i \in 1..Len(csockets) /\ csockets[i] = "CONNECTING"
    /\ csockets' = [csockets EXCEPT ![i] = "OPEN"]
    /\ connected' = IF Alive THEN TRUE ELSE connected
    /\ UNCHANGED << phase, effectSocket, ws, timers, dashNow, feedVars, mapVars,
                    serverVars, codecVars >>

\* part_002 69-77: onclose, for a socket closed by the server, by a failed
\* connection or by close(): the indicator goes off and a reconnect is
\* scheduled
SockClose(i) ==
    /\ i \in 1..Len(csockets) /\ csockets[i] # "CLOSED"
    /\ csockets' = [csockets EXCEPT ![i] = "CLOSED"]
    /\ connected' = IF Alive THEN FALSE ELSE connected
    /\ timers' = Append(timers, dashNow + RECONNECT_DELAY)
    /\ UNCHANGED << phase, effectSocket, ws, dashNow, feedVars, mapVars,
                    serverVars, codecVars >>

\* a sequence without its k-th element
Without(seq, k) == SubSeq(seq, 1, k - 1) \o SubSeq(seq, k + 1, Len(seq))

\* part_002 73-76: a reconnect timer that is due fires and calls
\* connectWebSocket; what connectWebSocket returns is dropped
TimerFire(k) ==
    /\ k \in 1..Len(timers) /\ timers[k] <= dashNow
    /\ Len(csockets) < MaxSockets
    /\ timers' = Without(timers, k)
    /\ csockets' = NewSocket
    /\ ws' = IF Alive THEN << Len(csockets) + 1 >> ELSE ws
    /\ UNCHANGED << phase, effectSocket, connected, dashNow, feedVars, mapVars,
                    serverVars, codecVars >>

\* the browser clock
DashTick ==
    /\ dashNow < MaxTicks * ClockStep
    /\ dashNow' = dashNow + ClockStep
    /\ UNCHANGED << connVars, feedVars, mapVars, serverVars, codecVars >>

\* what the server may push, and a text that is no JSON
PushTexts == { "snapshot", "garbage" }

\* JSON.parse succeeds
Parses(text) == text # "garbage"

\* a window that keeps its first entries
Window_KeepsOldest(times) ==
    IF Len(times) > WINDOW THEN SubSeq(times, 1, WINDOW) ELSE times

\* part_002 52: slice(-10)
Window(times) ==
    IF Len(times) > WINDOW
    THEN SubSeq(times, Len(times) - WINDOW + 1, Len(times))
    ELSE times

\* part_002 41-67: onmessage of an open socket
Push(i, text) ==
    /\ i \in 1..Len(csockets) /\ csockets[i] = "OPEN"
    /\ nPush < MaxPush
    /\ nPush' = nPush + 1
    /\ IF Parses(text)
       THEN /\ arrivals' = Append(arrivals, dashNow)
            /\ IF Alive
               THEN /\ dashData' = << text >>
                    /\ updateCount' = updateCount + 1
                    /\ updateTimes' = Window(Append(updateTimes, dashNow))
               ELSE UNCHANGED << dashData, updateCount, updateTimes >>
       ELSE UNCHANGED << arrivals, dashData, updateCount, updateTimes >>
    /\ UNCHANGED << connVars, dashNow, mapVars, serverVars, codecVars >>

\* the connection life cycle of the dashboard
NextDashboard ==
    \/ Effect
    \/ Cleanup
    \/ Discard
    \/ \E i \in 1..MaxSockets : SockOpen(i)
    \/ \E i \in 1..MaxSockets : SockClose(i)
    \/ \E k \in 1..MaxSockets : TimerFire(k)
    \/ DashTick

SpecDashboard == Init /\ [][NextDashboard]_vars

\* the feed of pushes into a mounted dashboard
NextFeed ==
    \/ Effect
    \/ \E i \in 1..MaxSockets : SockOpen(i)
    \/ \E i \in 1..MaxSockets, text \in PushTexts : Push(i, text)
    \/ DashTick

SpecFeed == Init /\ [][NextFeed]_vars

\* the sockets that are connecting or open
Live == { i \in 1..Len(csockets) : csockets[i] \in { "CONNECTING", "OPEN" } }

\* C34: the dashboard holds at most one WebSocket that is connecting or open
\* at any time, whatever the sequence of effect runs, cleanups, closes and
\* reconnect timers.
C34_AtMostOneLiveSocket ==
    Cardinality(Live) <= 1

\* the most recently created socket is open
NewestOpen == csockets # <<>> /\ csockets[Len(csockets)] = "OPEN"

\* the step in which the close event of socket i fires
ClosedNow(i) == csockets[i] # "CLOSED" /\ csockets'[i] = "CLOSED"

\* C35: whenever a socket of the dashboard closes, the connected indicator
\* becomes false and a reconnect is scheduled for 3000 ms later; a socket
\* that is not created by the effect is created by such a timer, when it is
\* due; and while the dashboard is mounted the connected indicator is true
\* exactly when the most recently created socket is open.
C35_Reconnection ==
    /\ [][\A i \in 1..Len(csockets) :
             ClosedNow(i) =>
                 /\ Alive => connected' = FALSE
                 /\ timers' = Append(timers, dashNow + RECONNECT_DELAY)]_vars
    /\ [][(Len(csockets') > Len(csockets) /\ phase' = phase) =>
             \E k \in 1..Len(timers) :
                 timers[k] <= dashNow /\ timers' = Without(timers, k)]_vars
    /\ [](phase = "mounted" => (connected <=> NewestOpen))

\* ======================================================================
\* The tactical map view (part_001)
\* ======================================================================
Min(a, b) == IF a < b THEN a ELSE b
Max(a, b) == IF a > b THEN a ELSE b

\* prev * factor for a factor given in tenths, kept in thousandths
Times(prev, tenths) == (prev * tenths) \div 10

\* a wheel zoom that is clamped from below only
WheelScale_NoCeiling(prev, deltaY) ==
    Max(MIN_SCALE, Times(prev, IF deltaY > 0 THEN 9 ELSE 11))

\* part_001 320-321: delta is 0.9 for deltaY > 0 and 1.1 otherwise
WheelScale(prev, deltaY) ==
    Max(MIN_SCALE, Min(MAX_SCALE, Times(prev, IF deltaY > 0 THEN 9 ELSE 11)))

\* part_001 345: Math.min(5, prev * 1.2)
ZoomInScale(prev) == Min(MAX_SCALE, Times(prev, 12))

\* part_001 352: Math.max(0.5, prev * 0.8)
ZoomOutScale(prev) == Max(MIN_SCALE, Times(prev, 8))

\* part_001 318-322: handleWheel
Wheel(deltaY) ==
    /\ scale' = WheelScale(scale, deltaY)
    /\ mapEvent' = "wheel"
    /\ UNCHANGED << offset, isDragging, dragStart, dashVars, serverVars,
                    codecVars >>

\* part_001 344-346: the zoom-in button
ZoomIn ==
    /\ scale' = ZoomInScale(scale)
    /\ mapEvent' = "zoomIn"
    /\ UNCHANGED << offset, isDragging, dragStart, dashVars, serverVars,
                    codecVars >>

\* part_001 351-353: the zoom-out button
ZoomOut ==
    /\ scale' = ZoomOutScale(scale)
    /\ mapEvent' = "zoomOut"
    /\ UNCHANGED << offset, isDragging, dragStart, dashVars, serverVars,
                    codecVars >>

\* part_001 324-327: handleReset
Reset ==
    /\ scale' = 1000
    /\ offset' = << 0, 0 >>
    /\ mapEvent' = "reset"
    /\ UNCHANGED << isDragging, dragStart, dashVars, serverVars, codecVars >>

\* pointer positions on the canvas: along its upper edge
Pointers == { << x, 0 >> : x \in 0..MaxPan }

\* the view is within reach of the pointer positions modelled
NearOrigin(o) ==
    /\ o[1] \in -MaxPan..MaxPan
    /\ o[2] \in -MaxPan..MaxPan

\* part_001 258-261: handleMouseDown
MouseDown(p) ==
    /\ NearOrigin(offset)
    /\ isDragging' = TRUE
    /\ dragStart' = << p[1] - offset[1], p[2] - offset[2] >>
    /\ mapEvent' = "down"
    /\ UNCHANGED << scale, offset, dashVars, serverVars, codecVars >>

\* part_001 263-276: handleMouseMove while dragging (the hover detection of
\* the other branch changes neither scale nor offset)
MouseMove(p) ==
    /\ isDragging
    /\ offset' = << p[1] - dragStart[1], p[2] - dragStart[2] >>
    /\ mapEvent' = "move"
    /\ UNCHANGED << scale, isDragging, dragStart, dashVars, serverVars,
                    codecVars >>

\* part_001 314-316: handleMouseUp, also on mouse leave
MouseUp ==
    /\ isDragging' = FALSE
    /\ mapEvent' = "up"
    /\ UNCHANGED << scale, offset, dragStart, dashVars, serverVars, codecVars >>

WheelDeltas == { -1, 0, 1 }

NextMap ==
    \/ \E deltaY \in WheelDeltas : Wheel(deltaY)
    \/ ZoomIn
    \/ ZoomOut
    \/ Reset
    \/ \E p \in Pointers : MouseDown(p)
    \/ \E p \in Pointers : MouseMove(p)
    \/ MouseUp

SpecMap == Init /\ [][NextMap]_vars

\* C36: after any sequence of wheel zooms, zoom-in clicks, zoom-out clicks,
\* drags and resets the zoom scale is within [0.5, 5], and right after a
\* reset the view is at scale 1 and offset (0,0).
C36_ZoomBounded ==
    /\ scale >= MIN_SCALE /\ scale <= MAX_SCALE
    /\ mapEvent = "reset" => (scale = 1000 /\ offset = << 0, 0 >>)

\* a zoom-in click on a panned view ended at the upper limit
C36_Witness ==
    /\ mapEvent = "zoomIn" /\ scale = MAX_SCALE
    /\ offset # << 0, 0 >>

\* ======================================================================
\* The change diagnostic
\* ======================================================================
\* first-platform positions around the threshold: none, the origin, and
\* points at 0.1 and just beyond it along an axis and off the axes
DiagnosticPositions ==
    { <<>>, << 0, 0 >>, << MOVE_THRESHOLD, 0 >>, << MOVE_THRESHOLD + 1, 0 >>,
      << 60, 80 >>, << 61, 80 >>, << 0, -MOVE_THRESHOLD - 1 >> }

DiagnosticPlatformLists ==
    { <<>> }
    \cup { << [id |-> 1, pos |-> p] >> : p \in DiagnosticPositions }
    \cup { << [id |-> 1, pos |-> p], [id |-> 2, pos |-> <<>>] >> :
             p \in { << 0, 0 >>, << MOVE_THRESHOLD + 1, 0 >> } }

DiagnosticBuffers ==
    { Encode([EmptyFrame EXCEPT
                !.statusReport = << [platforms |-> ps, targets |-> <<>>] >>]) :
        ps \in DiagnosticPlatformLists }

\* the ingestion loop alone, fed status reports
NextDiagnostic ==
    \/ \E buffer \in DiagnosticBuffers : Receive(buffer, {})
    \/ SendOk
    \/ SendRaiseInner
    \/ SendRaiseCatch
    \/ ReceiveRaise
    \/ Tick

SpecDiagnostic == Init /\ [][NextDiagnostic]_vars

\* the squared distance between two positions, a missing one counting as
\* the origin
Dist2(a, b) ==
    LET p == IF a = <<>> THEN << 0, 0 >> ELSE a
        q == IF b = <<>> THEN << 0, 0 >> ELSE b
    IN  (q[1] - p[1]) * (q[1] - p[1]) + (q[2] - p[2]) * (q[2] - p[2])

\* C37: the diagnostic of a status report, against the snapshot held when
\* the report arrived, is "changed" iff the platform counts differ, or they
\* are equal and non-zero and the first platform moved by more than 0.1 (a
\* missing position counting as (0,0)); with equal counts of zero, or a
\* displacement of at most 0.1, it is "unchanged".
C37_ChangePredicate ==
    ReportRequest =>
        LET old == before.platforms
            new == Req.frame.statusReport[1].platforms
        IN  /\ Len(old) # Len(new) => dataChanged
            /\ (Len(old) = Len(new) /\ Len(old) = 0) => ~dataChanged
            /\ (Len(old) = Len(new) /\ Len(old) > 0) =>
                  (dataChanged <=>
                      Dist2(old[1].pos, new[1].pos) > MOVE_THRESHOLD * MOVE_THRESHOLD)

\* a report whose first platform sits exactly 0.1 off the axes from a stored
\* platform without a position was found unchanged
C37_Witness ==
    /\ ReportRequest /\ ~dataChanged
    /\ Len(before.platforms) = 1 /\ before.platforms[1].pos = <<>>
    /\ Req.frame.statusReport[1].platforms = << [id |-> 1, pos |-> << 60, 80 >>] >>

\* ======================================================================
\* Properties of the dashboard's update feed
\* ======================================================================
\* the last n elements of a sequence, all of it when it is shorter
LastN(seq, n) ==
    [i \in 1..Min(n, Len(seq)) |-> seq[Len(seq) - Min(n, Len(seq)) + i]]

\* C38: while the dashboard is mounted its update-rate window holds the
\* arrival times of the most recent pushes that parsed, at most 10 of them,
\* in arrival order, and its update counter is the number of pushes that
\* parsed since mount.
C38_UpdateWindow ==
    Alive =>
        /\ Len(updateTimes) <= WINDOW
        /\ updateTimes = LastN(arrivals, WINDOW)
        /\ updateCount = Len(arrivals)

\* eleven pushes parsed and one did not: the window dropped the oldest time
C38_Witness ==
    /\ Alive /\ nPush = 12
    /\ updateCount = 11
    /\ Len(updateTimes) = WINDOW
    /\ arrivals[1] # arrivals[2]
    /\ updateTimes[1] = arrivals[2]
    /\ updateTimes[WINDOW] = arrivals[11]

====
